---- MODULE Spec2Model ----
(***************************************************************************)
(* Model of kittens/mouse_resize/main.py: the Mouse handler that turns     *)
(* mouse motion over the terminal grid into resize-window remote-control   *)
(* commands, and the main() entry point that parses the options and runs   *)
(* the handler in the tui Loop.                                            *)
(***************************************************************************)
EXTENDS Integers, Sequences, FiniteSets

VARIABLES
    pc,                   \* where main() is: "main", "prompt", "constructed", "running", "quitting", "exited"
    opts,                 \* Mouse.opts: the parsed ResizeCLIOptions
    current_mouse_event,  \* Mouse.current_mouse_event
    previous_cell,        \* Mouse.previous_cell
    current_cell,         \* Mouse.current_cell
    cursor_visible,       \* the terminal's cursor visibility (cmd.set_cursor_visible)
    written,              \* what the last callback wrote to the terminal, in order
    quit_requests,        \* the codes the last callback passed to quit_loop
    last,                 \* the name of the last callback the loop dispatched
    delivered,            \* history: the last mouse event the loop delivered
    last_move_cell,       \* history: the cell of the last MOVE event the loop delivered
    previous_before,      \* history: previous_cell as it was when the last callback began
    move_trace,           \* history: what on_mouse_move did in the last callback, in program order
    first_move_cell,      \* history: the cell of the first MOVE event of the session
    total_horizontal,     \* history: the sum of the increments of the horizontal commands sent
    total_vertical,       \* history: the sum of the increments of the vertical commands sent
    parse_exit,           \* the code of the SystemExit parse_args raised in main()
    stderr,               \* what main() printed on standard error
    loop_started,         \* whether loop.loop(handler) was called
    exit_status           \* the exit status of the process once main() is over

vars == <<pc, opts, current_mouse_event, previous_cell, current_cell, cursor_visible,
          written, quit_requests, last, delivered, last_move_cell,
          previous_before, move_trace, first_move_cell, total_horizontal,
          total_vertical, parse_exit, stderr, loop_started, exit_status>>

\* the history of the whole session, kept by the specification SpecSum only
sums == <<first_move_cell, total_horizontal, total_vertical>>

----------------------------------------------------------------------------
(* Bounds of the model *)

\* cell columns and rows range over 0..MaxCell
MaxCell == 2
\* the size of a cell in pixels: an event's pixel position is the centre of its cell
CellWidth == 8
CellHeight == 16

\* values given to --horizontal-increment / --vertical-increment (type=int)
StepValues == {-1, 2, 3}
\* the non-zero codes a failing parse_args exits with
ExitCodes == {1, 2}

----------------------------------------------------------------------------
(* Values *)

\* OPTIONS: default=2 for both increments
DefaultIncrement == 2

\* Python's None for a cell, and for a string-valued field
NoCell == <<>>
None == "None"
\* no SystemExit raised, no exit status yet
NoCode == -1

EventTypes == {"PRESS", "MOVE", "RELEASE"}
MouseButtons == {"LEFT", "RIGHT"}

MouseEvent(type, buttons, pixel_x, pixel_y, cell_x, cell_y) ==
    [type |-> type, buttons |-> buttons, pixel_x |-> pixel_x, pixel_y |-> pixel_y,
     cell_x |-> cell_x, cell_y |-> cell_y]

\* current_mouse_event = None
NoEvent == MouseEvent(None, {}, 0, 0, 0, 0)

\* the events the loop may deliver
MouseEvents ==
    {MouseEvent(t, b, cx * CellWidth + CellWidth \div 2, cy * CellHeight + CellHeight \div 2,
                cx, cy) :
        t \in EventTypes, b \in SUBSET MouseButtons,
        cx \in 0..MaxCell, cy \in 0..MaxCell}

\* the cell of an event: (int(ev.cell_x), int(ev.cell_y))
CellOf(ev) == <<ev.cell_x, ev.cell_y>>

NoOpts == [horizontal_increment |-> 0, vertical_increment |-> 0, set |-> FALSE]
ResizeCLIOptions(h, v) == [horizontal_increment |-> h, vertical_increment |-> v, set |-> TRUE]

\* the values an increment option takes: given on the command line, or the default
IncrementValues == StepValues \cup {DefaultIncrement}

abs(n) == IF n < 0 THEN -n ELSE n

----------------------------------------------------------------------------
(* What a callback writes *)

Line(text, a, b) == [text |-> text, a |-> a, b |-> b]

\* the remote-control command do_window_resize sends
ResizeCommand(axis, increment) ==
    [op |-> "resize_window", self |-> TRUE, increment |-> increment, axis |-> axis,
     screen |-> <<>>]

\* one atomic redraw of the screen
Draw(lines) ==
    [op |-> "draw_screen", self |-> FALSE, increment |-> 0, axis |-> None,
     screen |-> lines]

\* a slip in do_window_resize: the increment is not scaled by the multiplier
do_window_resize_unscaled(is_decrease, is_horizontal, reset, multiplier) ==
    LET base == IF is_horizontal THEN opts.horizontal_increment
                ELSE opts.vertical_increment
        increment == IF is_decrease THEN base * (-1) ELSE base
        axis == IF reset THEN "reset"
                ELSE IF is_horizontal THEN "horizontal" ELSE "vertical"
    IN  ResizeCommand(axis, increment)

\* a slip in do_window_resize: the reset axis is taken where the vertical one is meant
do_window_resize_reset_for_vertical(is_decrease, is_horizontal, reset, multiplier) ==
    LET base == IF is_horizontal THEN opts.horizontal_increment
                ELSE opts.vertical_increment
        scaled == base * multiplier
        increment == IF is_decrease THEN scaled * (-1) ELSE scaled
        axis == IF reset \/ ~is_horizontal THEN "reset" ELSE "horizontal"
    IN  ResizeCommand(axis, increment)

\* a slip in do_window_resize: is_decrease is not applied
do_window_resize_unsigned(is_decrease, is_horizontal, reset, multiplier) ==
    LET base == IF is_horizontal THEN opts.horizontal_increment
                ELSE opts.vertical_increment
        axis == IF reset THEN "reset"
                ELSE IF is_horizontal THEN "horizontal" ELSE "vertical"
    IN  ResizeCommand(axis, base * multiplier)

\* do_window_resize: the command it writes
do_window_resize(is_decrease, is_horizontal, reset, multiplier) ==
    LET base == IF is_horizontal THEN opts.horizontal_increment
                ELSE opts.vertical_increment
        scaled == base * multiplier
        increment == IF is_decrease THEN scaled * (-1) ELSE scaled
        axis == IF reset THEN "reset"
                ELSE IF is_horizontal THEN "horizontal" ELSE "vertical"
    IN  ResizeCommand(axis, increment)

\* Mouse.draw_screen: the lines it prints; ev is self.current_mouse_event as the
\* call finds it
draw_screen(ev) ==
    LET fixed == << Line("Resizing window", 0, 0),
                    Line("Move the mouse to resize the window", 0, 0),
                    Line("Release the right mouse button to stop resizing", 0, 0) >>
        debug == << Line("Debug info:", 0, 0),
                    Line("Position:", ev.pixel_x, ev.pixel_y),
                    Line("Previous Cell:", ev.cell_x, ev.cell_y),
                    Line("Current Cell:", ev.cell_x, ev.cell_y) >>
    IN  Draw(IF ev # NoEvent THEN fixed \o debug ELSE fixed)

----------------------------------------------------------------------------
(* main() *)

Init ==
    /\ pc = "main"
    /\ opts = NoOpts
    /\ current_mouse_event = NoEvent
    /\ previous_cell = NoCell
    /\ current_cell = NoCell
    /\ cursor_visible = TRUE
    /\ written = <<>>
    /\ quit_requests = <<>>
    /\ last = None
    /\ delivered = NoEvent
    /\ last_move_cell = NoCell
    /\ previous_before = NoCell
    /\ move_trace = <<>>
    /\ first_move_cell = NoCell
    /\ total_horizontal = 0
    /\ total_vertical = 0
    /\ parse_exit = NoCode
    /\ stderr = <<>>
    /\ loop_started = FALSE
    /\ exit_status = NoCode

HandlerUnchanged == UNCHANGED <<opts, current_mouse_event, previous_cell, current_cell>>

\* parse_args raises SystemExit(code): a non-zero code is reported on standard
\* error and main waits for Enter; code 0 (--help) makes main return at once
main_parse_exit(code) ==
    /\ pc = "main"
    /\ parse_exit' = code
    /\ IF code # 0
       THEN /\ stderr' = Append(stderr, "parse error")
            /\ pc' = "prompt"
            /\ exit_status' = exit_status
       ELSE /\ stderr' = stderr
            /\ pc' = "exited"
            /\ exit_status' = 0
    /\ HandlerUnchanged
    /\ UNCHANGED <<cursor_visible, written, quit_requests, last, delivered, last_move_cell,
                   previous_before, move_trace, sums,
                   loop_started>>

\* a slip in main: the parser's SystemExit is raised again after the prompt
main_input_return_reraise ==
    /\ pc = "prompt"
    /\ pc' = "exited"
    /\ exit_status' = parse_exit
    /\ HandlerUnchanged
    /\ UNCHANGED <<cursor_visible, written, quit_requests, last, delivered, last_move_cell,
                   previous_before, move_trace, sums, parse_exit, stderr, loop_started>>

\* input('Press Enter to quit') returns, and main returns
main_input_return ==
    /\ pc = "prompt"
    /\ pc' = "exited"
    /\ exit_status' = 0
    /\ HandlerUnchanged
    /\ UNCHANGED <<cursor_visible, written, quit_requests, last, delivered, last_move_cell,
                   previous_before, move_trace, sums,
                   parse_exit, stderr, loop_started>>

\* input('Press Enter to quit') raises EOFError, which nothing catches
main_input_eof ==
    /\ pc = "prompt"
    /\ pc' = "exited"
    /\ exit_status' = 1
    /\ stderr' = Append(stderr, "EOFError")
    /\ HandlerUnchanged
    /\ UNCHANGED <<cursor_visible, written, quit_requests, last, delivered, last_move_cell,
                   previous_before, move_trace, sums,
                   parse_exit, loop_started>>

\* Mouse.__init__
Mouse_init(cli_opts) ==
    /\ current_mouse_event' = NoEvent
    /\ opts' = cli_opts
    /\ previous_cell' = NoCell
    /\ current_cell' = NoCell

\* parse_args succeeds: loop = Loop(); handler = Mouse(cli_opts); loop.loop(handler)
main_start(h, v) ==
    /\ pc = "main"
    /\ Mouse_init(ResizeCLIOptions(h, v))
    /\ loop_started' = TRUE
    /\ pc' = "constructed"
    /\ UNCHANGED <<cursor_visible, written, quit_requests, last, delivered, last_move_cell,
                   previous_before, move_trace, sums,
                   parse_exit, stderr, exit_status>>

----------------------------------------------------------------------------
(* The handler's callbacks, as the loop dispatches them *)

\* the loop calls initialize once, when loop.loop(handler) starts
Starting == pc = "constructed"

\* the loop delivers events and signals, one at a time, until quit_loop is called
Dispatching == pc = "running"

\* after quit_loop the loop delivers nothing more and calls finalize
Stopping == pc = "quitting"

\* Mouse.initialize
initialize ==
    /\ Starting
    /\ cursor_visible' = FALSE
    /\ written' = <<draw_screen(current_mouse_event)>>
    /\ quit_requests' = <<>>
    /\ last' = "initialize"
    /\ pc' = "running"
    /\ HandlerUnchanged
    /\ previous_before' = previous_cell
    /\ move_trace' = <<>>
    /\ UNCHANGED sums
    /\ UNCHANGED <<delivered, last_move_cell, parse_exit, stderr, loop_started, exit_status>>

\* what the branches of on_mouse_event leave: the cells, what was written, the
\* codes passed to quit_loop, and the trace of on_mouse_move where it ran
Result(prev, cur, w, q, trace) ==
    [previous_cell |-> prev, current_cell |-> cur, written |-> w, quit_requests |-> q,
     move_trace |-> trace]

\* on_mouse_move: current_cell[0] - previous_cell[0]
horizontal_multiplier_of(cur) == cur[1] - previous_cell[1]

\* a slip in on_mouse_move: the row delta taken from the columns
vertical_multiplier_of_columns(cur) == cur[1] - previous_cell[1]

\* on_mouse_move: current_cell[1] - previous_cell[1]
vertical_multiplier_of(cur) == cur[2] - previous_cell[2]

\* a slip in on_mouse_move: redraw_pending is not set for a vertical command
redraw_pending_horizontal_only(horizontal_multiplier, vertical_multiplier) ==
    ~(horizontal_multiplier = 0)

\* on_mouse_move: redraw_pending, set where a command is sent
redraw_pending(horizontal_multiplier, vertical_multiplier) ==
    ~(horizontal_multiplier = 0) \/ ~(vertical_multiplier = 0)

\* a slip in on_mouse_move: previous_cell is left as it was after a move
updated_previous_cell_stale(cur) == previous_cell

\* on_mouse_move: self.previous_cell = (self.current_cell[0], self.current_cell[1])
updated_previous_cell(cur) == <<cur[1], cur[2]>>

\* an assignment to a field of the handler, as an entry of the trace
Assign(field, value) ==
    [op |-> "assign", self |-> FALSE, increment |-> 0, axis |-> field, screen |-> <<>>,
     value |-> value]

\* the writes of a trace, in order
IsWrite(e) == e.op # "assign"
Writes(trace) == SelectSeq(trace, IsWrite)

\* the value a trace assigns to a field
Assigned(trace, field) ==
    LET i == CHOOSE i \in 1..Len(trace) : trace[i].op = "assign" /\ trace[i].axis = field
    IN  trace[i].value

\* a slip in on_mouse_move: the screen is redrawn before the commands are sent
in_program_order_redraw_first(set_current, hcmd, vcmd, redraw, set_previous) ==
    set_current \o redraw \o hcmd \o vcmd \o set_previous

\* on_mouse_move: the order of its statements
in_program_order(set_current, hcmd, vcmd, redraw, set_previous) ==
    set_current \o hcmd \o vcmd \o redraw \o set_previous

\* Mouse.on_mouse_move, statement by statement; on_mouse_event has set
\* self.current_mouse_event before the call, and draw_screen reads it
move_trace_of(ev) ==
    LET cur == CellOf(ev)
    IN  IF previous_cell = NoCell
        THEN <<Assign("current_cell", cur), Assign("previous_cell", cur)>>
        ELSE
        LET horizontal_multiplier == horizontal_multiplier_of(cur)
            vertical_multiplier == vertical_multiplier_of(cur)
            hcmd == IF ~(horizontal_multiplier = 0)
                    THEN <<do_window_resize(horizontal_multiplier < 0, TRUE, FALSE,
                                            abs(horizontal_multiplier))>>
                    ELSE <<>>
            vcmd == IF ~(vertical_multiplier = 0)
                    THEN <<do_window_resize(vertical_multiplier < 0, FALSE, FALSE,
                                            abs(vertical_multiplier))>>
                    ELSE <<>>
            redraw == IF redraw_pending(horizontal_multiplier, vertical_multiplier)
                      THEN <<draw_screen(current_mouse_event')>> ELSE <<>>
        IN  in_program_order(<<Assign("current_cell", cur)>>, hcmd, vcmd, redraw,
                             <<Assign("previous_cell", updated_previous_cell(cur))>>)

\* Mouse.on_mouse_move: the cells it leaves and what it writes
on_mouse_move(ev) ==
    CHOOSE r \in {Result(Assigned(trace, "previous_cell"), Assigned(trace, "current_cell"),
                         Writes(trace), <<>>, trace) : trace \in {move_trace_of(ev)}} : TRUE

\* a slip in on_mouse_event: the event is not recorded at all
record_event_removed(ev) == current_mouse_event

\* a slip in on_mouse_event: the event is recorded after the PRESS check
record_event_after_press_check(ev) ==
    IF ev.type = "PRESS" THEN current_mouse_event ELSE ev

\* on_mouse_event: self.current_mouse_event = ev
record_event(ev) == ev

\* a slip in on_mouse_event: the PRESS check is missing and a press is handled
\* as a move
ignore_press_missing(ev) == on_mouse_move(ev)

\* a slip in on_mouse_event: a press starts the drag at its own cell
ignore_press_starts_drag(ev) == Result(CellOf(ev), current_cell, <<>>, <<>>, <<>>)

\* on_mouse_event: a PRESS event returns at once
ignore_press(ev) == Result(previous_cell, current_cell, <<>>, <<>>, <<>>)

\* a slip in on_mouse_event: any released button stops the session
stop_requested_any_button(ev) == ev.buttons # {}

\* on_mouse_event: MouseButton.RIGHT in ev.buttons
stop_requested(ev) == "RIGHT" \in ev.buttons

\* a slip in on_mouse_event: a release of another button ends the drag
release_ends_drag(ev) ==
    IF stop_requested(ev)
    THEN Result(previous_cell, current_cell, <<>>, <<0>>, <<>>)
    ELSE Result(NoCell, NoCell, <<>>, <<>>, <<>>)

\* on_mouse_event: a RELEASE event calls quit_loop(0) for the right button, and returns
release(ev) ==
    Result(previous_cell, current_cell, <<>>,
           IF stop_requested(ev) THEN <<0>> ELSE <<>>, <<>>)

\* a slip in do_window_resize: the step itself is scaled, in place of the local
opts_after_scaled_in_place(w) ==
    IF \E i \in 1..Len(w) : w[i].op = "resize_window" /\ w[i].axis = "horizontal"
    THEN [opts EXCEPT !.horizontal_increment = 2 * opts.horizontal_increment]
    ELSE opts

\* do_window_resize: increment is a local, self.opts is only read
opts_after(w) == opts

\* Mouse.on_mouse_event
on_mouse_event(ev) ==
    /\ Dispatching
    /\ last' = "on_mouse_event"
    /\ delivered' = ev
    /\ last_move_cell' = IF ev.type = "MOVE" THEN CellOf(ev) ELSE last_move_cell
    /\ previous_before' = previous_cell
    /\ current_mouse_event' = record_event(ev)
    /\ \E r \in {IF ev.type = "PRESS" THEN ignore_press(ev)
                 ELSE IF ev.type = "RELEASE" THEN release(ev)
                 ELSE on_mouse_move(ev)} :
          /\ previous_cell' = r.previous_cell
          /\ current_cell' = r.current_cell
          /\ written' = r.written
          /\ move_trace' = r.move_trace
          /\ quit_requests' = r.quit_requests
          /\ pc' = IF r.quit_requests # <<>> THEN "quitting" ELSE pc
    /\ opts' = opts_after(written')
    /\ UNCHANGED <<cursor_visible, parse_exit, stderr, loop_started, exit_status>>

\* Mouse.on_interrupt: quit_loop(0)
on_interrupt ==
    /\ Dispatching
    /\ last' = "on_interrupt"
    /\ written' = <<>>
    /\ quit_requests' = <<0>>
    /\ pc' = "quitting"
    /\ previous_before' = previous_cell
    /\ move_trace' = <<>>
    /\ UNCHANGED sums
    /\ HandlerUnchanged
    /\ UNCHANGED <<cursor_visible, delivered, last_move_cell, parse_exit, stderr, loop_started,
                   exit_status>>

\* a slip in the handler: on_eot is not bound to on_interrupt, and the default
\* on_eot of the base handler does nothing
on_eot_unbound ==
    /\ Dispatching
    /\ last' = "on_eot"
    /\ written' = <<>>
    /\ quit_requests' = <<>>
    /\ pc' = pc
    /\ previous_before' = previous_cell
    /\ move_trace' = <<>>
    /\ UNCHANGED sums
    /\ HandlerUnchanged
    /\ UNCHANGED <<cursor_visible, delivered, last_move_cell, parse_exit, stderr, loop_started,
                   exit_status>>

\* Mouse.on_eot = on_interrupt
on_eot ==
    /\ Dispatching
    /\ last' = "on_eot"
    /\ written' = <<>>
    /\ quit_requests' = <<0>>
    /\ pc' = "quitting"
    /\ previous_before' = previous_cell
    /\ move_trace' = <<>>
    /\ UNCHANGED sums
    /\ HandlerUnchanged
    /\ UNCHANGED <<cursor_visible, delivered, last_move_cell, parse_exit, stderr, loop_started,
                   exit_status>>

\* a slip in finalize: the cursor is left hidden
finalize_cursor_left_hidden ==
    /\ Stopping
    /\ last' = "finalize"
    /\ cursor_visible' = cursor_visible
    /\ written' = <<>>
    /\ quit_requests' = <<>>
    /\ pc' = "exited"
    /\ exit_status' = 0
    /\ previous_before' = previous_cell
    /\ move_trace' = <<>>
    /\ UNCHANGED sums
    /\ HandlerUnchanged
    /\ UNCHANGED <<delivered, last_move_cell, parse_exit, stderr, loop_started>>

\* Mouse.finalize, after which loop.loop(handler) and main return
finalize ==
    /\ Stopping
    /\ last' = "finalize"
    /\ cursor_visible' = TRUE
    /\ written' = <<>>
    /\ quit_requests' = <<>>
    /\ pc' = "exited"
    /\ exit_status' = 0
    /\ previous_before' = previous_cell
    /\ move_trace' = <<>>
    /\ UNCHANGED sums
    /\ HandlerUnchanged
    /\ UNCHANGED <<delivered, last_move_cell, parse_exit, stderr, loop_started>>

----------------------------------------------------------------------------

\* the sum of the increments of the commands of an axis among the writes w
RECURSIVE IncrementSum(_, _)
IncrementSum(w, axis) ==
    IF w = <<>> THEN 0
    ELSE (IF Head(w).op = "resize_window" /\ Head(w).axis = axis
          THEN Head(w).increment ELSE 0) + IncrementSum(Tail(w), axis)

\* the loop delivers a mouse event
mouse_event(ev) ==
    /\ on_mouse_event(ev)
    /\ UNCHANGED sums

\* the loop delivers a mouse event, and the history of the session is kept
mouse_event_summed(ev) ==
    /\ on_mouse_event(ev)
    /\ first_move_cell' = IF ev.type = "MOVE" /\ first_move_cell = NoCell
                          THEN CellOf(ev) ELSE first_move_cell
    /\ total_horizontal' = total_horizontal + IncrementSum(written', "horizontal")
    /\ total_vertical' = total_vertical + IncrementSum(written', "vertical")

Next ==
    \/ \E code \in ExitCodes \cup {0} : main_parse_exit(code)
    \/ main_input_return
    \/ main_input_eof
    \/ \E h \in IncrementValues, v \in IncrementValues : main_start(h, v)
    \/ initialize
    \/ \E ev \in MouseEvents : mouse_event(ev)
    \/ on_interrupt
    \/ on_eot
    \/ finalize

Spec == Init /\ [][Next]_vars

\* the session alone, with its history kept: a drag with the left button held,
\* ended by a release of the right button or by a signal
SumSteps == {-1, 2}

SumEvents ==
    {ev \in MouseEvents :
        ev.buttons = {"LEFT"} \/ (ev.type = "RELEASE" /\ ev.buttons = {"RIGHT"})}

NextSum ==
    \/ \E h \in SumSteps, v \in SumSteps : main_start(h, v)
    \/ initialize
    \/ \E ev \in SumEvents : mouse_event_summed(ev)
    \/ on_interrupt
    \/ on_eot
    \/ finalize

SpecSum == Init /\ [][NextSum]_vars

----------------------------------------------------------------------------
(* Vocabulary of the properties *)

\* this step is the dispatch of a mouse event of the given type
MouseStep(type) ==
    /\ pc = "running"
    /\ last' = "on_mouse_event"
    /\ delivered'.type = type

\* the last callback was the dispatch of a mouse event of the given type
Handled(type) == last = "on_mouse_event" /\ delivered.type = type

\* Tracking: a previous cell is recorded; Idle otherwise
Tracking == previous_cell # NoCell

\* the positions in w of the resize commands, of all axes and of one
ResizeCommands(w) == {i \in 1..Len(w) : w[i].op = "resize_window"}
CommandsOn(w, axis) == {i \in ResizeCommands(w) : w[i].axis = axis}
\* the positions in w of the redraws
Redraws(w) == {i \in 1..Len(w) : w[i].op = "draw_screen"}

\* the configured step of an axis
StepOf(axis) == IF axis = "horizontal" THEN opts.horizontal_increment
                ELSE opts.vertical_increment

\* the cell-delta of the event being dispatched in this step against a cell
DeltaFrom(cell, axis) ==
    IF axis = "horizontal" THEN delivered'.cell_x - cell[1]
    ELSE delivered'.cell_y - cell[2]

Axes == {"horizontal", "vertical"}

----------------------------------------------------------------------------
(* Properties *)

\* C1: a MOVE event handled in Tracking emits a resize command on an axis iff
\* the cell of the event differs on that axis from the cell of the preceding
\* MOVE event, which is the recorded previous cell.
C1_EmitIffDelta ==
    [][(MouseStep("MOVE") /\ Tracking) =>
         /\ previous_cell = last_move_cell
         /\ \A axis \in Axes :
              (CommandsOn(written', axis) # {}) <=> (DeltaFrom(last_move_cell, axis) # 0)
      ]_vars

\* C1 happens: a MOVE in Tracking that changed the column and not the row
\* emitted a horizontal command and no vertical one.
C1_Witness ==
    /\ Handled("MOVE")
    /\ previous_before # NoCell
    /\ delivered.cell_x # previous_before[1]
    /\ delivered.cell_y = previous_before[2]
    /\ CommandsOn(written, "horizontal") # {}
    /\ CommandsOn(written, "vertical") = {}

\* C2 as claimed: for every configured pair of integer steps, the increment of
\* the command of an axis has magnitude step * |delta| and is negative iff the
\* delta is negative.
C2_Original ==
    [][(MouseStep("MOVE") /\ Tracking) =>
         \A axis \in Axes : \A i \in CommandsOn(written', axis) :
            /\ abs(written'[i].increment) = StepOf(axis) * abs(DeltaFrom(previous_cell, axis))
            /\ (written'[i].increment < 0) <=> (DeltaFrom(previous_cell, axis) < 0)
      ]_vars

\* C2 as amended: the increment of the command of an axis is step * delta for
\* every configured step; for a positive step its magnitude is step * |delta|
\* and it is negative iff the delta is negative.
C2_IncrementIsStepTimesDelta ==
    [][(MouseStep("MOVE") /\ Tracking) =>
         \A axis \in Axes : \A i \in CommandsOn(written', axis) :
            LET delta == DeltaFrom(previous_cell, axis)
                inc == written'[i].increment
            IN  /\ inc = StepOf(axis) * delta
                /\ StepOf(axis) > 0 =>
                     /\ abs(inc) = StepOf(axis) * abs(delta)
                     /\ (inc < 0) <=> (delta < 0)
      ]_vars

\* C2 happens: with steps (2, 3) a MOVE two columns right and two rows up
\* emitted +4 on the horizontal axis and -6 on the vertical axis.
C2_Witness ==
    /\ Handled("MOVE")
    /\ opts.horizontal_increment = 2 /\ opts.vertical_increment = 3
    /\ previous_before # NoCell
    /\ delivered.cell_x - previous_before[1] = 2
    /\ delivered.cell_y - previous_before[2] = -2
    /\ \E i \in CommandsOn(written, "horizontal") : written[i].increment = 4
    /\ \E i \in CommandsOn(written, "vertical") : written[i].increment = -6

\* C3: a PRESS event emits no resize command, and the MOVE event received in
\* Idle emits none either: it records its cell as previous and enters Tracking.
C3_NoCommandOnPressOrFirstMove ==
    [][/\ MouseStep("PRESS") => ResizeCommands(written') = {}
       /\ (MouseStep("MOVE") /\ ~Tracking) =>
            /\ ResizeCommands(written') = {}
            /\ previous_cell' = CellOf(delivered')
            /\ Tracking'
      ]_vars

\* C3 happens: the first MOVE of the session was handled in Idle.
C3_Witness ==
    /\ Handled("MOVE")
    /\ previous_before = NoCell
    /\ previous_cell = CellOf(delivered)
    /\ written = <<>>

\* C4: a RELEASE event requests termination, once and with code 0, iff the
\* right button is among its buttons; otherwise it requests nothing, writes
\* nothing and leaves the previous and current cells as they were.
C4_ReleaseQuitsIffRight ==
    [][MouseStep("RELEASE") =>
         IF "RIGHT" \in delivered'.buttons
         THEN quit_requests' = <<0>> /\ pc' = "quitting"
         ELSE /\ quit_requests' = <<>>
              /\ pc' = "running"
              /\ written' = <<>>
              /\ previous_cell' = previous_cell
              /\ current_cell' = current_cell
      ]_vars

\* C4 happens: in Tracking, a RELEASE of the left and right buttons together
\* requested termination.
C4_Witness ==
    /\ Handled("RELEASE")
    /\ delivered.buttons = {"LEFT", "RIGHT"}
    /\ previous_cell # NoCell
    /\ quit_requests = <<0>>
    /\ pc = "quitting"

\* C5: in every state of the running session, Idle or Tracking, the interrupt
\* and the end-of-input callbacks can be dispatched, and each requests
\* termination with code 0 and emits no resize command; the session then ends
\* with exit status 0.
C5_SignalsQuit ==
    /\ [](pc = "running" => (ENABLED on_interrupt /\ ENABLED on_eot))
    /\ [][(pc = "running" /\ last' \in {"on_interrupt", "on_eot"}) =>
            /\ quit_requests' = <<0>>
            /\ pc' = "quitting"
            /\ ResizeCommands(written') = {}
         ]_vars
    /\ [][pc = "quitting" => (pc' = "exited" /\ exit_status' = 0)]_vars

\* C5 happens: end-of-input arrived in Tracking and requested termination.
C5_Witness ==
    /\ last = "on_eot"
    /\ previous_cell # NoCell
    /\ quit_requests = <<0>>
    /\ pc = "quitting"

\* C6 as claimed: after a failed option parsing (a SystemExit with a non-zero
\* code) the message is on standard error, the session loop is never started,
\* and the process exits with the parser's code.
C6_Original ==
    (parse_exit # NoCode /\ parse_exit # 0) =>
        /\ Len(stderr) >= 1 /\ stderr[1] = "parse error"
        /\ ~loop_started
        /\ pc = "exited" => exit_status = parse_exit

\* C6 as amended: after a failed option parsing the message is on standard
\* error and the session loop is never started; main then waits for Enter and
\* returns, so that the process exits with status 0 and not with the parser's
\* code (with status 1 if the prompt itself fails with EOFError).
C6_ParseFailureIsSwallowed ==
    (parse_exit # NoCode /\ parse_exit # 0) =>
        /\ Len(stderr) >= 1 /\ stderr[1] = "parse error"
        /\ ~loop_started
        /\ pc \in {"prompt", "exited"}
        /\ pc = "prompt" => exit_status = NoCode
        /\ pc = "exited" =>
             exit_status = IF stderr = <<"parse error">> THEN 0 ELSE 1

\* C6 happens: parsing failed with code 2, Enter was pressed and main returned.
C6_Witness ==
    /\ parse_exit = 2
    /\ pc = "exited"
    /\ stderr = <<"parse error">>
    /\ ~loop_started
    /\ exit_status = 0

\* C7: a PRESS event received in Tracking leaves the handler in Tracking with
\* the previous cell it had, which is the cell of the last MOVE event; the MOVE
\* event that follows the press computes its deltas against that cell.
C7_PressKeepsPreviousCell ==
    /\ [][(MouseStep("PRESS") /\ Tracking) =>
            /\ previous_cell' = previous_cell
            /\ previous_cell' = last_move_cell'
         ]_vars
    /\ [][(Handled("PRESS") /\ MouseStep("MOVE") /\ Tracking) =>
            \A axis \in Axes :
               /\ (CommandsOn(written', axis) # {}) <=> (DeltaFrom(last_move_cell, axis) # 0)
               /\ \A i \in CommandsOn(written', axis) :
                     written'[i].increment = StepOf(axis) * DeltaFrom(last_move_cell, axis)
         ]_vars

\* C7 happens: a press at another cell than the last MOVE was handled in
\* Tracking, and the previous cell is still that of the last MOVE.
C7_Witness ==
    /\ Handled("PRESS")
    /\ previous_before # NoCell
    /\ CellOf(delivered) # previous_before
    /\ previous_cell = previous_before
    /\ previous_cell = last_move_cell

\* C8 as claimed: a PRESS event leaves every field of the handler as it was:
\* the previous cell, the current cell and the recorded last mouse event.
C8_Original ==
    [][MouseStep("PRESS") =>
         /\ previous_cell' = previous_cell
         /\ current_cell' = current_cell
         /\ current_mouse_event' = current_mouse_event
      ]_vars

\* C8 as amended: a PRESS event leaves the previous cell, the current cell and
\* the steps as they were, writes nothing and requests no termination; the
\* recorded last mouse event is the one field it changes, to the PRESS event.
C8_PressChangesOnlyRecordedEvent ==
    [][MouseStep("PRESS") =>
         /\ previous_cell' = previous_cell
         /\ current_cell' = current_cell
         /\ opts' = opts
         /\ written' = <<>>
         /\ quit_requests' = <<>>
         /\ pc' = "running"
         /\ current_mouse_event' = delivered'
      ]_vars

\* C8 happens: a press was handled in Idle; no cell is recorded and the
\* recorded event is the press.
C8_Witness ==
    /\ Handled("PRESS")
    /\ previous_before = NoCell
    /\ previous_cell = NoCell
    /\ current_cell = NoCell
    /\ current_mouse_event = delivered
    /\ current_mouse_event.type = "PRESS"

\* C9: a MOVE event redraws the screen iff it emitted a resize command; a MOVE
\* to the cell of the previous MOVE writes nothing, and the first MOVE of the
\* session does not redraw.
C9_RedrawIffCommand ==
    [][MouseStep("MOVE") =>
         /\ (Redraws(written') # {}) <=> (ResizeCommands(written') # {})
         /\ (Tracking /\ CellOf(delivered') = last_move_cell) => written' = <<>>
         /\ ~Tracking => Redraws(written') = {}
      ]_vars

\* C9 happens: a MOVE that changed only the row emitted a command and redrew
\* the screen after it.
C9_Witness ==
    /\ Handled("MOVE")
    /\ previous_before # NoCell
    /\ delivered.cell_x = previous_before[1]
    /\ delivered.cell_y # previous_before[2]
    /\ Len(written) = 2
    /\ written[1].op = "resize_window"
    /\ written[2].op = "draw_screen"

\* C10: after every MOVE event, in Idle or in Tracking, the previous cell is
\* the cell of that event, so that in Tracking the previous cell is always the
\* cell of the last MOVE event delivered.
C10_PreviousIsLastMove ==
    /\ [][MouseStep("MOVE") => previous_cell' = CellOf(delivered')]_vars
    /\ [](Tracking => previous_cell = last_move_cell)

\* C10 happens: a MOVE in Tracking to another column and row was handled, and
\* the previous cell is its cell.
C10_Witness ==
    /\ Handled("MOVE")
    /\ previous_before # NoCell
    /\ delivered.cell_x # previous_before[1]
    /\ delivered.cell_y # previous_before[2]
    /\ previous_cell = CellOf(delivered)

\* the three lines every render begins with
FixedLines ==
    << Line("Resizing window", 0, 0),
       Line("Move the mouse to resize the window", 0, 0),
       Line("Release the right mouse button to stop resizing", 0, 0) >>

\* the positions in a trace of the updates of the previous cell
PreviousUpdates(trace) ==
    {k \in 1..Len(trace) : trace[k].op = "assign" /\ trace[k].axis = "previous_cell"}

\* C11: the session starts in Idle with the cursor hidden and the initial
\* screen rendered, before any event is handled; the cursor is restored when
\* the session ends; the cursor is hidden exactly while the session is running.
C11_CursorHiddenWhileRunning ==
    /\ [](~cursor_visible <=> pc \in {"running", "quitting"})
    /\ [][Starting =>
            /\ last' = "initialize"
            /\ delivered' = NoEvent
            /\ ~Tracking'
            /\ ~cursor_visible'
            /\ Len(written') = 1
            /\ written'[1].op = "draw_screen"
            /\ written'[1].screen = FixedLines
         ]_vars
    /\ [][Stopping => (last' = "finalize" /\ cursor_visible' /\ pc' = "exited")]_vars

\* C11 happens: a session in which a mouse event was handled has ended, and
\* the cursor is visible again.
C11_Witness ==
    /\ pc = "exited"
    /\ last = "finalize"
    /\ loop_started
    /\ delivered # NoEvent
    /\ cursor_visible

\* C12 as claimed: in the debug block of a redraw, the line "Previous Cell:"
\* shows the previous cell tracked when the screen is drawn, and the line
\* "Current Cell:" the tracked current cell.
C12_DebugShowsTrackedCells ==
    [][MouseStep("MOVE") =>
         \A i \in Redraws(written') :
            /\ written'[i].screen[6] = Line("Previous Cell:", previous_cell[1], previous_cell[2])
            /\ written'[i].screen[7] = Line("Current Cell:", current_cell'[1], current_cell'[2])
      ]_vars

\* C13: every render is the three fixed lines, followed by the debug block iff
\* a mouse event has been delivered before it; the debug block shows the pixel
\* and the cell of the most recently delivered event.
C13_RenderContent ==
    \A i \in Redraws(written) :
        /\ SubSeq(written[i].screen, 1, 3) = FixedLines
        /\ Len(written[i].screen) = (IF delivered # NoEvent THEN 7 ELSE 3)
        /\ delivered # NoEvent =>
             /\ written[i].screen[4] = Line("Debug info:", 0, 0)
             /\ written[i].screen[5] = Line("Position:", delivered.pixel_x, delivered.pixel_y)
             /\ written[i].screen[6].a = delivered.cell_x
             /\ written[i].screen[6].b = delivered.cell_y
             /\ written[i].screen[7].a = delivered.cell_x
             /\ written[i].screen[7].b = delivered.cell_y

\* C13 happens: a MOVE after a PRESS or a RELEASE somewhere else redrew the
\* screen with the debug block, which shows the pixel of the MOVE.
C13_Witness ==
    /\ Handled("MOVE")
    /\ Redraws(written) # {}
    /\ \A i \in Redraws(written) :
          /\ Len(written[i].screen) = 7
          /\ written[i].screen[5].a = delivered.pixel_x
          /\ written[i].screen[5].a > CellWidth

\* C14: handling one event emits at most two resize commands, at most one on
\* each axis; the horizontal command is written before the vertical one, the
\* commands before the redraw, and all of them before the previous cell is
\* updated.
C14_CommandOrder ==
    /\ Cardinality(ResizeCommands(written)) <= 2
    /\ \A axis \in Axes : Cardinality(CommandsOn(written, axis)) <= 1
    /\ Handled("MOVE") => written = Writes(move_trace)
    /\ \A i \in CommandsOn(move_trace, "horizontal") :
          \A j \in CommandsOn(move_trace, "vertical") : i < j
    /\ \A i \in ResizeCommands(move_trace) :
          /\ Redraws(move_trace) # {}
          /\ \A j \in Redraws(move_trace) : i < j
    /\ \A i \in ResizeCommands(move_trace) \cup Redraws(move_trace) :
          /\ PreviousUpdates(move_trace) # {}
          /\ \A k \in PreviousUpdates(move_trace) : i < k

\* C14 happens: a MOVE that changed the column and the row wrote the two
\* commands and the redraw, and then updated the previous cell.
C14_Witness ==
    /\ Handled("MOVE")
    /\ Len(move_trace) = 5
    /\ move_trace[2].axis = "horizontal"
    /\ move_trace[3].axis = "vertical"
    /\ move_trace[4].op = "draw_screen"
    /\ move_trace[5] = Assign("previous_cell", CellOf(delivered))

\* C15: over a session, the signed increments emitted on an axis sum to the
\* step of the axis times the difference between the last and the first MOVE
\* cell on that axis, whatever presses and releases came in between.
C15_IncrementsTelescope ==
    /\ first_move_cell = NoCell => (total_horizontal = 0 /\ total_vertical = 0)
    /\ first_move_cell # NoCell =>
         /\ total_horizontal
              = opts.horizontal_increment * (last_move_cell[1] - first_move_cell[1])
         /\ total_vertical
              = opts.vertical_increment * (last_move_cell[2] - first_move_cell[2])

\* C15 happens: a MOVE came from a cell that is neither the first nor the last
\* MOVE cell, after a PRESS or a RELEASE, and the column total is not zero.
C15_Witness ==
    /\ Handled("MOVE")
    /\ first_move_cell # NoCell
    /\ previous_before # NoCell
    /\ previous_before[1] # first_move_cell[1]
    /\ previous_before[1] # last_move_cell[1]
    /\ last_move_cell[1] < first_move_cell[1]
    /\ total_horizontal = opts.horizontal_increment * (last_move_cell[1] - first_move_cell[1])
    /\ total_horizontal # 0

\* C16: between two dispatches the previous cell and the current cell are the
\* same: both unset before the first MOVE, both the cell of the last MOVE
\* after it; a recorded previous cell is never unset again.
C16_CellsAgreeBetweenDispatches ==
    /\ [](previous_cell = current_cell /\ previous_cell = last_move_cell)
    /\ [][Tracking => Tracking']_vars

\* C16 happens: in Tracking a RELEASE of another button than the right one, at
\* another cell, left the two cells as they were, equal and recorded.
C16_Witness ==
    /\ Handled("RELEASE")
    /\ pc = "running"
    /\ Tracking
    /\ previous_cell = previous_before
    /\ previous_cell = current_cell
    /\ CellOf(delivered) # previous_cell

\* C17: every resize command emitted has the axis horizontal or vertical and
\* carries the self flag; the reset axis, which do_window_resize can produce,
\* is never emitted.
C17_AxisAndSelf ==
    /\ \A i \in ResizeCommands(written) :
          /\ written[i].axis \in Axes
          /\ written[i].axis # "reset"
          /\ written[i].self
    /\ \A trace \in {move_trace} :
          \A i \in ResizeCommands(trace) : trace[i].axis \in Axes /\ trace[i].self

\* C17 happens: a MOVE up one row emitted one command, on the vertical axis
\* with the self flag.
C17_Witness ==
    /\ Handled("MOVE")
    /\ previous_before # NoCell
    /\ delivered.cell_y < previous_before[2]
    /\ Cardinality(ResizeCommands(written)) = 1
    /\ \A i \in ResizeCommands(written) : written[i].axis = "vertical" /\ written[i].self

\* C18: the configured steps are those given at startup and no callback
\* changes them, so that the same delta always yields the same increment.
C18_StepsAreFixed ==
    /\ [][pc = "main" /\ pc' = "constructed" =>
            /\ opts'.set
            /\ opts'.horizontal_increment \in IncrementValues
            /\ opts'.vertical_increment \in IncrementValues]_vars
    /\ [][pc # "main" => opts' = opts]_vars
    /\ [][(MouseStep("MOVE") /\ Tracking) =>
            \A axis \in Axes : \A i \in CommandsOn(written', axis) :
               written'[i].increment
                 = (IF axis = "horizontal" THEN opts'.horizontal_increment
                    ELSE opts'.vertical_increment) * DeltaFrom(previous_cell, axis)
         ]_vars

\* C18 happens: with the steps 3 and -1, a MOVE two columns to the right in
\* Tracking emitted the increment 6, and the steps are still 3 and -1.
C18_Witness ==
    /\ Handled("MOVE")
    /\ opts = ResizeCLIOptions(3, -1)
    /\ previous_before # NoCell
    /\ delivered.cell_x - previous_before[1] = 2
    /\ \E i \in CommandsOn(written, "horizontal") : written[i].increment = 6

====
